---- MODULE Spec2Model ----
(***************************************************************************)
(* git-sheets: snapshots of tables, their integrity hashes and the diff    *)
(* between two snapshots (src/src/lib.rs), and the snapshot command of the *)
(* CLI (src/src/main.rs).                                                  *)
(*                                                                         *)
(* Strings are TLA+ strings, Vec<T> is a sequence, Option<T> is a sequence *)
(* of length 0 (None) or 1 (Some), HashMap<K,V> is a function.  Rust       *)
(* indices are 0-based; the model keeps the 0-based numbers in every value *)
(* the code produces (Change records, primary keys) and adds 1 only when   *)
(* it subscripts a sequence.                                               *)
(***************************************************************************)
EXTENDS Integers, Sequences, FiniteSets, TLC

\* ------------------------------------------------------------------ bounds
\* A table of the model has Len(headers) + (1 + Len(row)) summed over its
\* rows at most MaxSize.
MaxSize == 4
\* add_dependency is called at most MaxDeps times on one snapshot.
MaxDeps == 1
\* The epoch-seconds clock runs from 0 to MaxClock.
MaxClock == 1
\* The snapshot command is run at most MaxRuns times.
MaxRuns == 2
\* A primary key names at most MaxKeyLen columns.
MaxKeyLen == 2

\* lib.rs:75  &hashes.table_hash[..8]
IdPrefixLen == 8

HeaderNames == {"h", "k"}
CellValues == {"a", "b"}
Messages == {<<>>, <<"m">>}
Stems == {"s"}

\* ------------------------------------------------------------------ values
None == <<>>
Some(v) == <<v>>
IsSome(o) == o # <<>>
Unwrap(o) == o[1]

Min(a, b) == IF a < b THEN a ELSE b
Max(a, b) == IF a < b THEN b ELSE a

\* slice.get(idx) with a 0-based idx
Get(s, idx) == IF idx < Len(s) THEN Some(s[idx + 1]) ELSE None

\* Option<&str>.unwrap_or("")
UnwrapOr(o, d) == IF IsSome(o) THEN Unwrap(o) ELSE d

\* The bytes a hasher has been fed after update() on each string of ss in order.
RECURSIVE Concat(_)
Concat(ss) == IF ss = <<>> THEN "" ELSE Head(ss) \o Concat(Tail(ss))

RECURSIVE Flatten(_)
Flatten(rows) == IF rows = <<>> THEN <<>> ELSE Head(rows) \o Flatten(Tail(rows))

\* ------------------------------------------------------------------ tables
RowsOfLen(n) == [1..n -> CellValues]

\* The row sequences whose rows weigh w in all, a row weighing 1 + its length.
RECURSIVE RowSeqsOfWeight(_)
RowSeqsOfWeight(w) ==
    IF w = 0 THEN {<<>>}
    ELSE UNION { { <<r>> \o rest : r \in RowsOfLen(k), rest \in RowSeqsOfWeight(w - 1 - k) }
                 : k \in 0..(w - 1) }

HeaderSeqs == UNION { [1..n -> HeaderNames] : n \in 0..MaxSize }

RowSeqs == UNION { RowSeqsOfWeight(w) : w \in 0..MaxSize }

TableSize(headers, rows) == Len(headers) + Len(rows) + Len(Flatten(rows))

\* struct Table, as Table::from_csv builds it (primary_key: None)
Table(headers, rows, primary_key) ==
    [headers |-> headers, rows |-> rows, primary_key |-> primary_key]

Tables ==
    UNION { { Table(h, rs, None) : rs \in { x \in RowSeqs : TableSize(h, x) <= MaxSize } }
            : h \in HeaderSeqs }

\* ------------------------------------------------------------- hash engine
\* Sha256 followed by format!("{:x}"): the digest is identified with the byte
\* string that was fed to the hasher, which makes the hash injective on it.
Sha256Hex(bytes) == bytes

hash_column(header, data) == Sha256Hex(header \o Concat(data))

hash_row(row) == Sha256Hex(Concat(row))

\* A hash_table that forgets the rows.
hash_table_headers_only(headers, rows) == Sha256Hex(Concat(headers))

hash_table(headers, rows) == Sha256Hex(Concat(headers) \o Concat(Flatten(rows)))

\* table.rows.iter().map(|row| row.get(idx).map(..).unwrap_or("")).collect()
ColumnData(table, idx) ==
    [r \in 1..Len(table.rows) |-> UnwrapOr(Get(table.rows[r], idx), "")]

\* HashMap::insert: a later insert of the same key replaces the earlier value.
Insert(m, k, v) == [x \in (DOMAIN m) \cup {k} |-> IF x = k THEN v ELSE m[x]]

EmptyMap == [x \in {} |-> ""]

\* The loop over table.headers.iter().enumerate(), from 0-based idx on.
RECURSIVE HeaderHashesFrom(_, _, _)
HeaderHashesFrom(table, idx, acc) ==
    IF idx >= Len(table.headers) THEN acc
    ELSE HeaderHashesFrom(table, idx + 1,
            Insert(acc, table.headers[idx + 1],
                   hash_column(table.headers[idx + 1], ColumnData(table, idx))))

RowHashes(table) == [r \in 1..Len(table.rows) |-> hash_row(table.rows[r])]

TableHashesCompute(table) ==
    [table_hash    |-> hash_table(table.headers, table.rows),
     header_hashes |-> HeaderHashesFrom(table, 0, EmptyMap),
     row_hashes    |-> Some(RowHashes(table))]

\* ---------------------------------------------------------- primary keys
\* Table::set_primary_key
TableSetPrimaryKey(t, column_indices) == [t EXCEPT !.primary_key = Some(column_indices)]

\* pk_indices.iter().filter_map(|&idx| row.get(idx).cloned()).collect()
RECURSIVE FilterMapGet(_, _)
FilterMapGet(pk_indices, row) ==
    IF pk_indices = <<>> THEN <<>>
    ELSE LET cell == Get(row, Head(pk_indices))
         IN  (IF IsSome(cell) THEN <<Unwrap(cell)>> ELSE <<>>)
                 \o FilterMapGet(Tail(pk_indices), row)

\* A get_row_key that puts "" where the row has no cell.
TableGetRowKeyPadded(t, row_idx) ==
    IF ~IsSome(t.primary_key) THEN None
    ELSE IF ~IsSome(Get(t.rows, row_idx)) THEN None
    ELSE Some([j \in DOMAIN Unwrap(t.primary_key) |->
                  UnwrapOr(Get(Unwrap(Get(t.rows, row_idx)), Unwrap(t.primary_key)[j]), "")])

\* Table::get_row_key: each ? returns None from the function.
TableGetRowKey(t, row_idx) ==
    IF ~IsSome(t.primary_key) THEN None
    ELSE IF ~IsSome(Get(t.rows, row_idx)) THEN None
    ELSE Some(FilterMapGet(Unwrap(t.primary_key), Unwrap(Get(t.rows, row_idx))))

\* ---------------------------------------------------------------- snapshot
\* &s[..n]; a digest of the model can be shorter than n bytes
Prefix(str, n) == SubSeq(str, 1, Min(n, Len(str)))

\* format!("{}-{}", Utc::now().timestamp(), &hashes.table_hash[..8])
SnapshotId(now, table_hash) == ToString(now) \o "-" \o Prefix(table_hash, IdPrefixLen)

\* The table without its last row.
WithoutLastRow(t) ==
    [t EXCEPT !.rows = IF @ = <<>> THEN @ ELSE SubSeq(@, 1, Len(@) - 1)]

\* A Snapshot::new that computes the hashes before the last row is in the table.
SnapshotNewStaleHashes(t, message, now, stamp) ==
    LET h == TableHashesCompute(WithoutLastRow(t))
    IN  [id           |-> SnapshotId(now, h.table_hash),
         timestamp    |-> stamp,
         message      |-> message,
         table        |-> t,
         hashes       |-> h,
         dependencies |-> <<>>]

\* Snapshot::new; now is the clock read for the id, stamp the later read for
\* the timestamp field.
SnapshotNew(t, message, now, stamp) ==
    LET h == TableHashesCompute(t)
    IN  [id           |-> SnapshotId(now, h.table_hash),
         timestamp    |-> stamp,
         message      |-> message,
         table        |-> t,
         hashes       |-> h,
         dependencies |-> <<>>]

Dependency(name, path, hash) == [name |-> name, path |-> path, hash |-> hash]

\* Snapshot::add_dependency
SnapshotAddDependency(s, name, path, hash) ==
    [s EXCEPT !.dependencies = Append(@, Dependency(name, path, hash))]

\* A verify that also compares the column and row digests.
SnapshotVerifyDeep(s) ==
    LET computed == TableHashesCompute(s.table)
    IN  /\ computed.table_hash = s.hashes.table_hash
        /\ computed.header_hashes = s.hashes.header_hashes
        /\ computed.row_hashes = s.hashes.row_hashes

\* A verify that compares the stored table digest with itself.
SnapshotVerifyStored(s) ==
    LET computed == s.hashes
    IN  computed.table_hash = s.hashes.table_hash

\* Snapshot::verify
SnapshotVerify(s) ==
    LET computed == TableHashesCompute(s.table)
    IN  computed.table_hash = s.hashes.table_hash

\* ------------------------------------------------------- snapshot files
\* A TOML document is a function from keys to values; toml::to_string_pretty
\* writes no key for a None, and toml::from_str reads a missing Option key as
\* None and fails on any other missing key.
EmptyDoc == [x \in {} |-> ""]

OptField(key, o) == IF IsSome(o) THEN key :> Unwrap(o) ELSE EmptyDoc

OptGet(doc, key) == IF key \in DOMAIN doc THEN Some(doc[key]) ELSE None

\* chrono's Serialize / Deserialize of DateTime<Utc>: a date-time string
FormatTime(t) == ToString(t) \o "Z"

ParseTime(str) ==
    IF \E t \in 0..MaxClock : FormatTime(t) = str
    THEN Some(CHOOSE t \in 0..MaxClock : FormatTime(t) = str)
    ELSE None

\* #[derive(Serialize)] of Table, TableHashes, Dependency and Snapshot
TableToToml(t) ==
    ("headers" :> t.headers) @@ ("rows" :> t.rows) @@ OptField("primary_key", t.primary_key)

HashesToToml(h) ==
    ("table_hash" :> h.table_hash) @@ ("header_hashes" :> h.header_hashes)
        @@ OptField("row_hashes", h.row_hashes)

DependencyToToml(d) ==
    ("name" :> d.name) @@ OptField("path", d.path) @@ ("hash" :> d.hash)

ToToml(s) ==
    ("id" :> s.id) @@ ("timestamp" :> FormatTime(s.timestamp))
        @@ OptField("message", s.message)
        @@ ("table" :> TableToToml(s.table))
        @@ ("hashes" :> HashesToToml(s.hashes))
        @@ ("dependencies" :>
                [i \in DOMAIN s.dependencies |-> DependencyToToml(s.dependencies[i])])

\* #[derive(Deserialize)]: the keys that must be present
Deserializable(doc) ==
    /\ {"id", "timestamp", "table", "hashes", "dependencies"} \subseteq DOMAIN doc
    /\ IsSome(ParseTime(doc["timestamp"]))
    /\ {"headers", "rows"} \subseteq DOMAIN doc["table"]
    /\ {"table_hash", "header_hashes"} \subseteq DOMAIN doc["hashes"]
    /\ \A i \in DOMAIN doc["dependencies"] :
           {"name", "hash"} \subseteq DOMAIN doc["dependencies"][i]

FromToml(doc) ==
    [id           |-> doc["id"],
     timestamp    |-> Unwrap(ParseTime(doc["timestamp"])),
     message      |-> OptGet(doc, "message"),
     table        |-> Table(doc["table"]["headers"], doc["table"]["rows"],
                            OptGet(doc["table"], "primary_key")),
     hashes       |-> [table_hash    |-> doc["hashes"]["table_hash"],
                       header_hashes |-> doc["hashes"]["header_hashes"],
                       row_hashes    |-> OptGet(doc["hashes"], "row_hashes")],
     dependencies |-> [i \in DOMAIN doc["dependencies"] |->
                          Dependency(doc["dependencies"][i]["name"],
                                     OptGet(doc["dependencies"][i], "path"),
                                     doc["dependencies"][i]["hash"])]]

Ok(v) == [ok |-> TRUE, val |-> v]
Err(e) == [ok |-> FALSE, err |-> e]

\* Snapshot::load on a location holding file (None: no file there)
SnapshotLoad(file) ==
    IF ~IsSome(file) THEN Err("IoError")
    ELSE IF ~Deserializable(Unwrap(file)) THEN Err("DeserializationError")
    ELSE Ok(FromToml(Unwrap(file)))

\* ------------------------------------------------------------- diff engine
RowAdded(index, data) == [kind |-> "RowAdded", index |-> index, data |-> data]
RowRemoved(index, data) == [kind |-> "RowRemoved", index |-> index, data |-> data]
CellChanged(row, col, old, new) ==
    [kind |-> "CellChanged", row |-> row, col |-> col, old |-> old, new |-> new]
ColumnAdded(name, index) == [kind |-> "ColumnAdded", name |-> name, index |-> index]
ColumnRemoved(name, index) == [kind |-> "ColumnRemoved", name |-> name, index |-> index]

ZeroSummary ==
    [rows_added |-> 0, rows_removed |-> 0, rows_modified |-> 0,
     columns_added |-> 0, columns_removed |-> 0]

\* let mut changes = Vec::new(); let mut summary = DiffSummary { .. 0 };
EmptyDiff == [changes |-> <<>>, summary |-> ZeroSummary]

\* headers.iter().collect::<HashSet<_>>()
HeaderSet(headers) == { headers[i] : i \in 1..Len(headers) }

\* An added-columns loop that records how many columns were added so far
\* instead of the column's index.
RECURSIVE AddedLoopCounted(_, _, _, _)
AddedLoopCounted(d, from_headers, to_table_headers, idx) ==
    IF idx >= Len(to_table_headers) THEN d
    ELSE LET header == to_table_headers[idx + 1]
             d1 == IF header \notin from_headers
                   THEN [changes |-> Append(d.changes,
                                            ColumnAdded(header, d.summary.columns_added)),
                         summary |-> [d.summary EXCEPT !.columns_added = @ + 1]]
                   ELSE d
         IN  AddedLoopCounted(d1, from_headers, to_table_headers, idx + 1)

\* for (idx, header) in to.table.headers.iter().enumerate(), from idx on
RECURSIVE AddedLoop(_, _, _, _)
AddedLoop(d, from_headers, to_table_headers, idx) ==
    IF idx >= Len(to_table_headers) THEN d
    ELSE LET header == to_table_headers[idx + 1]
             d1 == IF header \notin from_headers
                   THEN [changes |-> Append(d.changes, ColumnAdded(header, idx)),
                         summary |-> [d.summary EXCEPT !.columns_added = @ + 1]]
                   ELSE d
         IN  AddedLoop(d1, from_headers, to_table_headers, idx + 1)

\* for (idx, header) in from.table.headers.iter().enumerate(), from idx on
RECURSIVE RemovedLoop(_, _, _, _)
RemovedLoop(d, to_headers, from_table_headers, idx) ==
    IF idx >= Len(from_table_headers) THEN d
    ELSE LET header == from_table_headers[idx + 1]
             d1 == IF header \notin to_headers
                   THEN [changes |-> Append(d.changes, ColumnRemoved(header, idx)),
                         summary |-> [d.summary EXCEPT !.columns_removed = @ + 1]]
                   ELSE d
         IN  RemovedLoop(d1, to_headers, from_table_headers, idx + 1)

\* A cell loop that records the new value as old and the old value as new.
RECURSIVE CellLoopSwapped(_, _, _, _, _)
CellLoopSwapped(changes, i, from_row, to_row, col) ==
    IF col >= Min(Len(from_row), Len(to_row)) THEN changes
    ELSE LET old == from_row[col + 1]
             new == to_row[col + 1]
         IN  CellLoopSwapped(IF old # new THEN Append(changes, CellChanged(i, col, new, old))
                                          ELSE changes,
                             i, from_row, to_row, col + 1)

\* for (col, (old, new)) in from_row.iter().zip(to_row.iter()).enumerate()
RECURSIVE CellLoop(_, _, _, _, _)
CellLoop(changes, i, from_row, to_row, col) ==
    IF col >= Min(Len(from_row), Len(to_row)) THEN changes
    ELSE LET old == from_row[col + 1]
             new == to_row[col + 1]
         IN  CellLoop(IF old # new THEN Append(changes, CellChanged(i, col, old, new))
                                   ELSE changes,
                      i, from_row, to_row, col + 1)

\* A modified-row arm that counts every changed cell as a modified row.
RowModifiedPerCell(d, i, from_row, to_row) ==
    IF from_row # to_row
    THEN LET cs == CellLoop(d.changes, i, from_row, to_row, 0)
         IN  [changes |-> cs,
              summary |-> [d.summary EXCEPT
                              !.rows_modified = @ + (Len(cs) - Len(d.changes))]]
    ELSE d

\* A modified-row arm without the from_row != to_row test.
RowModifiedAlways(d, i, from_row, to_row) ==
    [changes |-> CellLoop(d.changes, i, from_row, to_row, 0),
     summary |-> [d.summary EXCEPT !.rows_modified = @ + 1]]

\* (Some(from_row), Some(to_row)) => { if from_row != to_row { .. } }
RowModified(d, i, from_row, to_row) ==
    IF from_row # to_row
    THEN [changes |-> CellLoop(d.changes, i, from_row, to_row, 0),
          summary |-> [d.summary EXCEPT !.rows_modified = @ + 1]]
    ELSE d

\* match (from.table.rows.get(i), to.table.rows.get(i))
RowStep(d, from_rows, to_rows, i) ==
    LET f == Get(from_rows, i)
        t == Get(to_rows, i)
    IN  IF ~IsSome(f) /\ IsSome(t)
        THEN [changes |-> Append(d.changes, RowAdded(i, Unwrap(t))),
              summary |-> [d.summary EXCEPT !.rows_added = @ + 1]]
        ELSE IF IsSome(f) /\ ~IsSome(t)
        THEN [changes |-> Append(d.changes, RowRemoved(i, Unwrap(f))),
              summary |-> [d.summary EXCEPT !.rows_removed = @ + 1]]
        ELSE RowModified(d, i, Unwrap(f), Unwrap(t))

\* for i in 0..max_rows, from i on
RECURSIVE RowLoop(_, _, _, _, _)
RowLoop(d, from_rows, to_rows, i, max_rows) ==
    IF i >= max_rows THEN d
    ELSE RowLoop(RowStep(d, from_rows, to_rows, i), from_rows, to_rows, i + 1, max_rows)

\* A header comparison that looks for removed columns first.
ColumnLoopsRemovedFirst(d, from_table, to_table) ==
    AddedLoop(RemovedLoop(d, HeaderSet(to_table.headers), from_table.headers, 0),
              HeaderSet(from_table.headers), to_table.headers, 0)

\* The header comparison of SnapshotDiff::compute
ColumnLoops(d, from_table, to_table) ==
    RemovedLoop(AddedLoop(d, HeaderSet(from_table.headers), to_table.headers, 0),
                HeaderSet(to_table.headers), from_table.headers, 0)

\* SnapshotDiff::compute
SnapshotDiffCompute(from_s, to_s) ==
    LET max_rows == Max(Len(from_s.table.rows), Len(to_s.table.rows))
        d == RowLoop(ColumnLoops(EmptyDiff, from_s.table, to_s.table),
                     from_s.table.rows, to_s.table.rows, 0, max_rows)
    IN  [from_id |-> from_s.id,
         to_id   |-> to_s.id,
         summary |-> d.summary,
         changes |-> d.changes]

\* ------------------------------------------------------------------- state
VARIABLES
    table,        \* the Table a caller holds
    hashes,       \* Option: the TableHashes last computed from table
    prevTable,    \* Option: table before the cell was replaced
    prevHashes,   \* Option: the TableHashes computed from prevTable
    edit,         \* Option: <<r, c>>, the 0-based cell that was replaced
    from,         \* the source Snapshot of a diff
    to,           \* the target Snapshot of a diff
    diff,         \* Option: the SnapshotDiff computed from them
    clock,        \* Utc::now().timestamp(), in seconds
    pc,           \* where the caller stands in create / save / load / verify
    snap,         \* Option: the Snapshot built by Snapshot::new
    disk,         \* Option: the TOML document at the snapshot's location
    altered,      \* how the file was altered after it was saved
    loaded,       \* Option: the Result of Snapshot::load
    verified,     \* Option: the bool the last Snapshot::verify returned
    files,        \* snapshots/: file name -> TOML document
    runs,         \* the Snapshots the snapshot command has created, in order
    prevDisk,     \* Option: what the location held when fs::write began
    written,      \* how many top-level keys fs::write has written so far
    rowIdx,       \* Option: the row_idx of the last Table::get_row_key call
    rowKey        \* Option: the Option<Vec<String>> that call returned

hashVars == <<table, hashes, prevTable, prevHashes, edit>>
diffVars == <<from, to, diff>>
lifeVars == <<pc, snap, disk, altered, loaded, verified>>
cliVars == <<files, runs>>
saveVars == <<prevDisk, written>>
keyVars == <<rowIdx, rowKey>>

vars == <<hashVars, diffVars, clock, lifeVars, cliVars, saveVars, keyVars>>

IdleHash ==
    /\ table = Table(<<>>, <<>>, None)
    /\ hashes = None /\ prevTable = None /\ prevHashes = None /\ edit = None

IdleDiff == from = None /\ to = None /\ diff = None

IdleLife ==
    /\ pc = "start" /\ snap = None /\ disk = None /\ altered = "no"
    /\ loaded = None /\ verified = None

IdleCli == files = EmptyDoc /\ runs = <<>>

IdleSave == prevDisk = None /\ written = 0

IdleKey == rowIdx = None /\ rowKey = None

\* --------------------------------------------------- hashing a table twice
InitHash ==
    /\ table \in Tables
    /\ hashes = None
    /\ prevTable = None
    /\ prevHashes = None
    /\ edit = None
    /\ clock = 0
    /\ IdleDiff /\ IdleLife /\ IdleCli /\ IdleSave /\ IdleKey

\* let hashes = TableHashes::compute(&table);
Compute ==
    /\ hashes = None
    /\ hashes' = Some(TableHashesCompute(table))
    /\ UNCHANGED <<table, prevTable, prevHashes, edit>>
    /\ UNCHANGED <<diffVars, clock, lifeVars, cliVars, saveVars, keyVars>>

ReplaceCell(t, r, c, v) ==
    [t EXCEPT !.rows[r + 1][c + 1] = v]

\* table.rows[r][c] = v  (Table's fields are pub), with v a different value
SetCell(r, c, v) ==
    /\ IsSome(hashes)
    /\ edit = None
    /\ r < Len(table.rows)
    /\ c < Len(table.rows[r + 1])
    /\ v # table.rows[r + 1][c + 1]
    /\ table' = ReplaceCell(table, r, c, v)
    /\ prevTable' = Some(table)
    /\ prevHashes' = hashes
    /\ hashes' = None
    /\ edit' = Some(<<r, c>>)
    /\ UNCHANGED <<diffVars, clock, lifeVars, cliVars, saveVars, keyVars>>

NextHash ==
    \/ Compute
    \/ \E r \in 0..(MaxSize - 1), c \in 0..(MaxSize - 1), v \in CellValues : SetCell(r, c, v)

SpecHash == InitHash /\ [][NextHash]_vars

\* ------------------------------------------------ diffing two snapshots
InitDiff ==
    /\ \E t1 \in Tables, t2 \in Tables :
           /\ from = SnapshotNew(t1, None, 0, 0)
           /\ to = SnapshotNew(t2, None, 0, 0)
    /\ diff = None
    /\ clock = 0
    /\ IdleHash /\ IdleLife /\ IdleCli /\ IdleSave /\ IdleKey

\* let diff = SnapshotDiff::compute(&snapshot1, &snapshot2);
ComputeDiff ==
    /\ diff = None
    /\ diff' = Some(SnapshotDiffCompute(from, to))
    /\ UNCHANGED <<from, to>>
    /\ UNCHANGED <<hashVars, clock, lifeVars, cliVars, saveVars, keyVars>>

NextDiff == ComputeDiff

SpecDiff == InitDiff /\ [][NextDiff]_vars

\* ------------------------------- create, save, load and verify a snapshot
DepNames == {"d"}
DepPaths == {None, Some("p")}
DepHashes == {"x"}
AlteredDigests == {"", "h", "zz"}

Init ==
    /\ clock = 0
    /\ IdleLife
    /\ IdleHash /\ IdleDiff /\ IdleCli /\ IdleSave /\ IdleKey

\* let mut snapshot = Snapshot::new(table, message);
New(t, message) ==
    /\ pc = "start"
    /\ \E stamp \in clock..Min(clock + 1, MaxClock) :
           /\ snap' = Some(SnapshotNew(t, message, clock, stamp))
           /\ clock' = stamp
    /\ pc' = "built"
    /\ UNCHANGED <<disk, altered, loaded, verified>>
    /\ UNCHANGED <<hashVars, diffVars, cliVars, saveVars, keyVars>>

\* snapshot.add_dependency(name, path, hash);
AddDependency(name, path, hash) ==
    /\ pc = "built"
    /\ Len(Unwrap(snap).dependencies) < MaxDeps
    /\ snap' = Some(SnapshotAddDependency(Unwrap(snap), name, path, hash))
    /\ UNCHANGED <<pc, disk, altered, loaded, verified>>
    /\ UNCHANGED <<hashVars, diffVars, clock, cliVars, saveVars, keyVars>>

\* snapshot.save(path)?;
Save ==
    /\ pc = "built"
    /\ disk' = Some(ToToml(Unwrap(snap)))
    /\ altered' = "no"
    /\ verified' = None
    /\ pc' = "saved"
    /\ UNCHANGED <<snap, loaded>>
    /\ UNCHANGED <<hashVars, diffVars, clock, cliVars, saveVars, keyVars>>

\* The file is edited by hand: hashes.table_hash is set to another value.
AlterTableHash(v) ==
    /\ pc = "saved" /\ altered = "no"
    /\ v # Unwrap(disk)["hashes"]["table_hash"]
    /\ disk' = Some([Unwrap(disk) EXCEPT !["hashes"]["table_hash"] = v])
    /\ altered' = "table_hash"
    /\ UNCHANGED <<pc, snap, loaded, verified>>
    /\ UNCHANGED <<hashVars, diffVars, clock, cliVars, saveVars, keyVars>>

\* The hashes table with its column digests garbled, its row digests garbled
\* or its row_hashes key dropped.
FineAltered(h, garbleHeaders, rowsMode) ==
    LET hh == IF garbleHeaders
              THEN [k \in DOMAIN h["header_hashes"] |-> h["header_hashes"][k] \o "x"]
              ELSE h["header_hashes"]
        base == ("table_hash" :> h["table_hash"]) @@ ("header_hashes" :> hh)
    IN  IF rowsMode = "drop" \/ "row_hashes" \notin DOMAIN h THEN base
        ELSE IF rowsMode = "garble"
        THEN base @@ ("row_hashes" :>
                         [i \in DOMAIN h["row_hashes"] |-> h["row_hashes"][i] \o "x"])
        ELSE base @@ ("row_hashes" :> h["row_hashes"])

\* The file is edited by hand: only hashes.header_hashes and hashes.row_hashes change.
AlterFineHashes(garbleHeaders, rowsMode) ==
    /\ pc = "saved" /\ altered = "no"
    /\ FineAltered(Unwrap(disk)["hashes"], garbleHeaders, rowsMode) # Unwrap(disk)["hashes"]
    /\ disk' = Some([Unwrap(disk) EXCEPT
                        !["hashes"] = FineAltered(@, garbleHeaders, rowsMode)])
    /\ altered' = "fine_hashes"
    /\ UNCHANGED <<pc, snap, loaded, verified>>
    /\ UNCHANGED <<hashVars, diffVars, clock, cliVars, saveVars, keyVars>>

\* The file loses a key that is not optional.
DamageFile(key) ==
    /\ pc = "saved" /\ altered = "no"
    /\ disk' = Some([k \in (DOMAIN Unwrap(disk)) \ {key} |-> Unwrap(disk)[k]])
    /\ altered' = "structure"
    /\ UNCHANGED <<pc, snap, loaded, verified>>
    /\ UNCHANGED <<hashVars, diffVars, clock, cliVars, saveVars, keyVars>>

\* The file is removed.
DeleteFile ==
    /\ pc = "saved" /\ altered = "no"
    /\ disk' = None
    /\ altered' = "deleted"
    /\ UNCHANGED <<pc, snap, loaded, verified>>
    /\ UNCHANGED <<hashVars, diffVars, clock, cliVars, saveVars, keyVars>>

\* let loaded = Snapshot::load(path);
Load ==
    /\ pc = "saved"
    /\ loaded' = Some(SnapshotLoad(disk))
    /\ pc' = IF SnapshotLoad(disk).ok THEN "loaded" ELSE "failed"
    /\ UNCHANGED <<snap, disk, altered, verified>>
    /\ UNCHANGED <<hashVars, diffVars, clock, cliVars, saveVars, keyVars>>

\* The Snapshot the caller holds: the one it built, or the one it loaded.
Held == IF pc = "loaded" THEN Unwrap(loaded).val ELSE Unwrap(snap)

\* snapshot.verify()
Verify ==
    /\ pc \in {"built", "loaded"}
    /\ verified' = Some(SnapshotVerify(Held))
    /\ UNCHANGED <<pc, snap, disk, altered, loaded>>
    /\ UNCHANGED <<hashVars, diffVars, clock, cliVars, saveVars, keyVars>>

Next ==
    \/ \E t \in Tables, message \in Messages : New(t, message)
    \/ \E name \in DepNames, path \in DepPaths, hash \in DepHashes :
           AddDependency(name, path, hash)
    \/ Save
    \/ \E v \in AlteredDigests : AlterTableHash(v)
    \/ \E garbleHeaders \in BOOLEAN, rowsMode \in {"keep", "garble", "drop"} :
           AlterFineHashes(garbleHeaders, rowsMode)
    \/ \E key \in {"id", "hashes"} : DamageFile(key)
    \/ DeleteFile
    \/ Load
    \/ Verify

Spec == Init /\ [][Next]_vars

\* ------------------------------------------------ the snapshot command
InitCli ==
    /\ clock = 0
    /\ IdleCli
    /\ IdleHash /\ IdleDiff /\ IdleLife /\ IdleSave /\ IdleKey

\* format!("{}_{}.toml", file.file_stem(), snapshot.id)
SnapshotFileName(stem, id) == stem \o "_" \o id \o ".toml"

\* create_snapshot(file, message, None, false): the table read from the CSV
\* file is t; fs::write replaces what the file name held.
CreateSnapshot(stem, t, message) ==
    /\ Len(runs) < MaxRuns
    /\ \E stamp \in clock..Min(clock + 1, MaxClock) :
           LET s == SnapshotNew(t, message, clock, stamp)
           IN  /\ files' = Insert(files, SnapshotFileName(stem, s.id), ToToml(s))
               /\ runs' = Append(runs, s)
               /\ clock' = stamp
    /\ UNCHANGED <<hashVars, diffVars, lifeVars, saveVars, keyVars>>

\* A second passes between two runs of the command.
Tick ==
    /\ clock < MaxClock
    /\ clock' = clock + 1
    /\ UNCHANGED <<hashVars, diffVars, lifeVars, cliVars, saveVars, keyVars>>

NextCli ==
    \/ \E stem \in Stems, t \in Tables : CreateSnapshot(stem, t, None)
    \/ Tick

SpecCli == InitCli /\ [][NextCli]_vars

\* ------------------------------------------- the steps of Snapshot::save
\* The top-level keys in the order to_string_pretty writes them: the order of
\* the fields of struct Snapshot.
KeyOrder == <<"id", "timestamp", "message", "table", "hashes", "dependencies">>

\* A file that holds the text of doc up to and including its n-th key.
TruncatedDoc(doc, n) ==
    [k \in { KeyOrder[i] : i \in 1..n } \cap DOMAIN doc |-> doc[k]]

EmptyTable == Table(<<>>, <<>>, None)

\* What the location can hold before a save: nothing, or an earlier snapshot.
EarlierFiles == {None, Some(ToToml(SnapshotNew(EmptyTable, None, 0, 0)))}

InitSave ==
    /\ clock = 0
    /\ pc = "start" /\ snap = None /\ altered = "no"
    /\ loaded = None /\ verified = None
    /\ disk \in EarlierFiles
    /\ prevDisk = disk
    /\ written = 0
    /\ IdleHash /\ IdleDiff /\ IdleCli /\ IdleKey

\* fs::write(output_path, toml_string), first half: File::create makes the
\* file or truncates the one that is there.
SaveCreate ==
    /\ pc = "built"
    /\ prevDisk' = disk
    /\ disk' = Some(EmptyDoc)
    /\ written' = 0
    /\ pc' = "writing"
    /\ UNCHANGED <<snap, altered, loaded, verified>>
    /\ UNCHANGED <<hashVars, diffVars, clock, cliVars, keyVars>>

\* fs::write, second half: write_all hands the text to the file piece by
\* piece; save returns Ok(()) after the last piece.
SaveWrite ==
    /\ pc = "writing"
    /\ written < Len(KeyOrder)
    /\ written' = written + 1
    /\ disk' = Some(TruncatedDoc(ToToml(Unwrap(snap)), written + 1))
    /\ pc' = IF written + 1 = Len(KeyOrder) THEN "saved" ELSE "writing"
    /\ UNCHANGED <<snap, altered, loaded, verified, prevDisk>>
    /\ UNCHANGED <<hashVars, diffVars, clock, cliVars, keyVars>>

\* File::create fails: fs::write returns the error and save returns Err with
\* the location untouched.
SaveCreateFails ==
    /\ pc = "built"
    /\ prevDisk' = disk
    /\ written' = 0
    /\ pc' = "save_failed"
    /\ UNCHANGED <<snap, disk, altered, loaded, verified>>
    /\ UNCHANGED <<hashVars, diffVars, clock, cliVars, keyVars>>

\* A write fails (or the process is stopped) before the last piece: save
\* returns Err and the file keeps what was written so far.
SaveWriteFails ==
    /\ pc = "writing"
    /\ pc' = "save_failed"
    /\ UNCHANGED <<snap, disk, altered, loaded, verified>>
    /\ UNCHANGED <<hashVars, diffVars, clock, cliVars, saveVars, keyVars>>

\* Snapshot::load(path) after a save that returned Err
LoadAfterFailedSave ==
    /\ pc = "save_failed"
    /\ loaded = None
    /\ loaded' = Some(SnapshotLoad(disk))
    /\ UNCHANGED <<pc, snap, disk, altered, verified>>
    /\ UNCHANGED <<hashVars, diffVars, clock, cliVars, saveVars, keyVars>>

NextSave ==
    \/ \E t \in Tables, message \in Messages : New(t, message)
    \/ SaveCreate
    \/ SaveWrite
    \/ SaveCreateFails
    \/ SaveWriteFails
    \/ LoadAfterFailedSave
    \/ Load

SpecSave == InitSave /\ [][NextSave]_vars

\* ------------------------------------------ looking up the key of a row
\* A primary key has at most MaxKeyLen column indices, each from KeyColumns.
KeyColumns == {0, 1, 2}

KeyLists == UNION { [1..n -> KeyColumns] : n \in 0..MaxKeyLen }

InitKey ==
    /\ table \in Tables
    /\ hashes = None /\ prevTable = None /\ prevHashes = None /\ edit = None
    /\ clock = 0
    /\ IdleKey
    /\ IdleDiff /\ IdleLife /\ IdleCli /\ IdleSave

\* table.set_primary_key(column_indices); an earlier row key is dropped.
SetPrimaryKey(column_indices) ==
    /\ table' = TableSetPrimaryKey(table, column_indices)
    /\ rowIdx' = None
    /\ rowKey' = None
    /\ UNCHANGED <<hashes, prevTable, prevHashes, edit>>
    /\ UNCHANGED <<diffVars, clock, lifeVars, cliVars, saveVars>>

\* let key = table.get_row_key(row_idx);
GetRowKey(row_idx) ==
    /\ rowIdx' = Some(row_idx)
    /\ rowKey' = Some(TableGetRowKey(table, row_idx))
    /\ UNCHANGED <<hashVars, diffVars, clock, lifeVars, cliVars, saveVars>>

NextKey ==
    \/ \E column_indices \in KeyLists : SetPrimaryKey(column_indices)
    \/ \E row_idx \in 0..MaxSize : GetRowKey(row_idx)

SpecKey == InitKey /\ [][NextKey]_vars

\* --------------------------------- editing the table of a saved snapshot
\* The file is edited by hand: table.headers and table.rows are replaced by
\* those of another table, and the stored hashes are kept.
AlterTable(t) ==
    /\ pc = "saved" /\ altered = "no"
    /\ <<t.headers, t.rows>> # <<Unwrap(disk)["table"]["headers"], Unwrap(disk)["table"]["rows"]>>
    /\ disk' = Some([Unwrap(disk) EXCEPT !["table"]["headers"] = t.headers,
                                         !["table"]["rows"] = t.rows])
    /\ altered' = "table"
    /\ UNCHANGED <<pc, snap, loaded, verified>>
    /\ UNCHANGED <<hashVars, diffVars, clock, cliVars, saveVars, keyVars>>

NextTamper ==
    \/ \E t \in Tables : New(t, None)
    \/ Save
    \/ \E t \in Tables : AlterTable(t)
    \/ Load
    \/ Verify

SpecTamper == Init /\ [][NextTamper]_vars

\* ------------------------------------------------- C3: sensitivity to a cell
Edited == IsSome(edit) /\ IsSome(hashes) /\ IsSome(prevHashes)

EditRow == Unwrap(edit)[1]
EditCol == Unwrap(edit)[2]

\* The 0-based index of the last column whose header is h.
LastIndexOf(headers, h) ==
    CHOOSE i \in 0..(Len(headers) - 1) :
        /\ headers[i + 1] = h
        /\ \A j \in (i + 1)..(Len(headers) - 1) : headers[j + 1] # h

\* C3 as stated: replacing one cell by a different value changes the table
\* digest, row digest r and the digest header_hashes holds for the header of
\* the cell's column, and leaves every other row and column digest unchanged.
C3_AsStated ==
    Edited =>
        LET old == Unwrap(prevHashes)
            new == Unwrap(hashes)
            hdrs == table.headers
        IN  /\ new.table_hash # old.table_hash
            /\ Unwrap(new.row_hashes)[EditRow + 1] # Unwrap(old.row_hashes)[EditRow + 1]
            /\ \A i \in 1..Len(table.rows) :
                   i # EditRow + 1 => Unwrap(new.row_hashes)[i] = Unwrap(old.row_hashes)[i]
            /\ EditCol < Len(hdrs) =>
                   new.header_hashes[hdrs[EditCol + 1]] # old.header_hashes[hdrs[EditCol + 1]]
            /\ \A h \in DOMAIN new.header_hashes :
                   (EditCol >= Len(hdrs) \/ h # hdrs[EditCol + 1]) =>
                       new.header_hashes[h] = old.header_hashes[h]

\* C3 amended: replacing one cell by a different value changes the table
\* digest and row digest r and leaves every other row digest unchanged; the
\* digest header_hashes holds for a header name changes exactly when the
\* cell's column has a header, that header has this name and no later column
\* has the same name (a cell beyond the headers, or under a header name that
\* recurs to its right, changes no column digest).
C3_Sensitivity ==
    Edited =>
        LET old == Unwrap(prevHashes)
            new == Unwrap(hashes)
            hdrs == table.headers
        IN  /\ new.table_hash # old.table_hash
            /\ Unwrap(new.row_hashes)[EditRow + 1] # Unwrap(old.row_hashes)[EditRow + 1]
            /\ Len(Unwrap(new.row_hashes)) = Len(Unwrap(old.row_hashes))
            /\ \A i \in 1..Len(table.rows) :
                   i # EditRow + 1 => Unwrap(new.row_hashes)[i] = Unwrap(old.row_hashes)[i]
            /\ DOMAIN new.header_hashes = DOMAIN old.header_hashes
            /\ \A h \in DOMAIN new.header_hashes :
                   (new.header_hashes[h] # old.header_hashes[h])
                       <=> /\ EditCol < Len(hdrs)
                           /\ hdrs[EditCol + 1] = h
                           /\ LastIndexOf(hdrs, h) = EditCol

\* A cell under the only header of its name was replaced in a table that has
\* a second header of another name, and the hashes were computed again.
C3_Witness ==
    /\ Edited
    /\ EditCol < Len(table.headers)
    /\ LastIndexOf(table.headers, table.headers[EditCol + 1]) = EditCol
    /\ Cardinality(DOMAIN Unwrap(hashes).header_hashes) > 1

\* --------------------------------------------------- C4..C8: the diff engine
Diffed == IsSome(diff)
Changes == Unwrap(diff).changes
Summary == Unwrap(diff).summary
FromRows == from.table.rows
ToRows == to.table.rows

IsColumnChange(ch) == ch.kind \in {"ColumnAdded", "ColumnRemoved"}
IsRowChange(ch) == ch.kind \in {"RowAdded", "RowRemoved", "CellChanged"}
RowIndexOf(ch) == IF ch.kind = "CellChanged" THEN ch.row ELSE ch.index

\* The positions of the change sequence holding a row-level change of row i.
AtRow(i) == { k \in DOMAIN Changes : IsRowChange(Changes[k]) /\ RowIndexOf(Changes[k]) = i }

\* The positions of the change sequence holding a change of the given kind.
OfKind(kind) == { k \in DOMAIN Changes : Changes[k].kind = kind }

C5_HeaderSets ==
    Diffed =>
        LET fh == from.table.headers
            th == to.table.headers
        IN  /\ \A j \in 0..(Len(th) - 1) :
                   Cardinality({ k \in DOMAIN Changes : Changes[k] = ColumnAdded(th[j + 1], j) })
                       = IF \E x \in DOMAIN fh : fh[x] = th[j + 1] THEN 0 ELSE 1
            /\ \A j \in 0..(Len(fh) - 1) :
                   Cardinality({ k \in DOMAIN Changes : Changes[k] = ColumnRemoved(fh[j + 1], j) })
                       = IF \E x \in DOMAIN th : th[x] = fh[j + 1] THEN 0 ELSE 1
            /\ \A k \in OfKind("ColumnAdded") :
                   /\ Changes[k].index < Len(th)
                   /\ Changes[k].name = th[Changes[k].index + 1]
            /\ \A k \in OfKind("ColumnRemoved") :
                   /\ Changes[k].index < Len(fh)
                   /\ Changes[k].name = fh[Changes[k].index + 1]
            /\ \A k \in DOMAIN Changes :
                   IsColumnChange(Changes[k]) =>
                       ~ /\ \E x \in DOMAIN fh : fh[x] = Changes[k].name
                         /\ \E x \in DOMAIN th : th[x] = Changes[k].name

\* A header stands at different positions in the two tables and is not
\* reported, while a column that only the target has is reported at index 0.
C5_Witness ==
    /\ Diffed
    /\ \E x \in DOMAIN from.table.headers, y \in DOMAIN to.table.headers :
           /\ from.table.headers[x] = to.table.headers[y]
           /\ x # y
           /\ \A z \in DOMAIN to.table.headers :
                  to.table.headers[z] = from.table.headers[x] => z # x
    /\ \E k \in OfKind("ColumnAdded") : Changes[k].index = 0

KindRank(ch) ==
    IF ch.kind = "ColumnAdded" THEN 0 ELSE IF ch.kind = "ColumnRemoved" THEN 1 ELSE 2

\* C6: in the change sequence every ColumnAdded precedes every ColumnRemoved,
\* every column change precedes every row-level change, row-level changes are
\* in non-decreasing row order, and the CellChanged records of one row are
\* contiguous and in strictly ascending column order.
C6_ChangeOrder ==
    Diffed =>
        \A k \in DOMAIN Changes, l \in DOMAIN Changes :
            k < l =>
                /\ KindRank(Changes[k]) <= KindRank(Changes[l])
                /\ (IsRowChange(Changes[k]) /\ IsRowChange(Changes[l])) =>
                       RowIndexOf(Changes[k]) <= RowIndexOf(Changes[l])
                /\ ( /\ Changes[k].kind = "CellChanged"
                     /\ Changes[l].kind = "CellChanged"
                     /\ Changes[k].row = Changes[l].row ) =>
                       /\ Changes[k].col < Changes[l].col
                       /\ \A m \in k..l :
                              /\ Changes[m].kind = "CellChanged"
                              /\ Changes[m].row = Changes[k].row

\* One diff holds a ColumnAdded, a ColumnRemoved and two CellChanged of one row.
C6_Witness ==
    /\ Diffed
    /\ OfKind("ColumnAdded") # {}
    /\ OfKind("ColumnRemoved") # {}
    /\ \E k \in OfKind("CellChanged"), l \in OfKind("CellChanged") :
           k # l /\ Changes[k].row = Changes[l].row

\* C7: the summary agrees with the change list and the inputs: each of
\* rows_added, rows_removed, columns_added, columns_removed is the number of
\* records of its kind, and rows_modified is the number of indices at which
\* both tables have a row and the rows are unequal.
C7_SummaryCounts ==
    Diffed =>
        /\ Summary.rows_added = Cardinality(OfKind("RowAdded"))
        /\ Summary.rows_removed = Cardinality(OfKind("RowRemoved"))
        /\ Summary.columns_added = Cardinality(OfKind("ColumnAdded"))
        /\ Summary.columns_removed = Cardinality(OfKind("ColumnRemoved"))
        /\ Summary.rows_modified =
               Cardinality({ i \in 1..Min(Len(FromRows), Len(ToRows)) :
                                 FromRows[i] # ToRows[i] })

\* One modified row with two changed cells is counted once, next to an added row.
C7_Witness ==
    /\ Diffed
    /\ Summary.rows_modified = 1
    /\ Cardinality(OfKind("CellChanged")) = 2
    /\ Summary.rows_added = 1

\* C8: the diff of a snapshot with itself has no change and an all-zero summary.
C8_DiffIdentity ==
    (Diffed /\ from = to) =>
        /\ Changes = <<>>
        /\ Summary = ZeroSummary

\* A snapshot with a header and a row longer than the header list was
\* compared to itself.
C8_Witness ==
    /\ Diffed
    /\ from = to
    /\ from.table.headers # <<>>
    /\ \E i \in DOMAIN FromRows : Len(FromRows[i]) > Len(from.table.headers)

\* ------------------------------------------- C1, C2, C9: save, load, verify
\* C1: a snapshot built by Snapshot::new and any add_dependency calls
\* verifies true, and after save and load from the unaltered file the load
\* succeeds and the loaded snapshot verifies true.
C1_VerifyRoundTrip ==
    /\ (pc = "built" /\ IsSome(verified)) => verified = Some(TRUE)
    /\ (pc \in {"loaded", "failed"} /\ altered = "no") =>
           /\ pc = "loaded"
           /\ Unwrap(loaded).ok
           /\ IsSome(verified) => verified = Some(TRUE)

\* A snapshot of a table with a header and a row, with a dependency, was
\* saved, loaded from the unaltered file and verified.
C1_Witness ==
    /\ pc = "loaded"
    /\ altered = "no"
    /\ verified = Some(TRUE)
    /\ Held.dependencies # <<>>
    /\ Held.table.headers # <<>>
    /\ \E i \in DOMAIN Held.table.rows : Held.table.rows[i] # <<>>

\* C2: when only the stored table_hash of a saved snapshot was altered to a
\* different value, load succeeds and verify on the loaded snapshot returns
\* false.
C2_AlteredTableHash ==
    (pc \in {"loaded", "failed"} /\ altered = "table_hash") =>
        /\ pc = "loaded"
        /\ Unwrap(loaded).ok
        /\ IsSome(verified) => verified = Some(FALSE)

\* A snapshot file with an altered table_hash was loaded and verified.
C2_Witness ==
    /\ pc = "loaded"
    /\ altered = "table_hash"
    /\ verified = Some(FALSE)
    /\ Held.table.rows # <<>>

\* C9: verify returns true exactly when the table digest recomputed from the
\* embedded table equals the stored table_hash; a snapshot loaded from a file
\* in which only header_hashes and row_hashes were altered verifies true.
C9_VerifyTableHashOnly ==
    /\ IsSome(verified) =>
           Unwrap(verified) =
               (hash_table(Held.table.headers, Held.table.rows) = Held.hashes.table_hash)
    /\ (pc = "loaded" /\ altered = "fine_hashes" /\ IsSome(verified)) =>
           verified = Some(TRUE)

\* A snapshot whose stored column and row digests both differ from the
\* recomputed ones was loaded and verified.
C9_Witness ==
    /\ pc = "loaded"
    /\ altered = "fine_hashes"
    /\ IsSome(verified)
    /\ Held.hashes.header_hashes # TableHashesCompute(Held.table).header_hashes
    /\ Held.hashes.row_hashes # TableHashesCompute(Held.table).row_hashes

\* ------------------------------------------------------ C10: snapshot ids
\* C10: two snapshots created by separate Snapshot::new calls have different
\* ids, so no run of the snapshot command overwrites the file of an earlier run.
C10_UniqueIds ==
    /\ \A i \in DOMAIN runs, j \in DOMAIN runs : i # j => runs[i].id # runs[j].id
    /\ Cardinality(DOMAIN files) = Len(runs)

\* ------------------------------------------------------- C11: atomic save
\* C11: at every point of a save, also one that fails part-way, the location
\* holds what it held before the save or the complete serialization of the
\* new snapshot, so that a later load never reads a truncated snapshot.
C11_AtomicSave ==
    IsSome(snap) =>
        /\ disk \in {prevDisk, Some(ToToml(Unwrap(snap)))}
        /\ IsSome(loaded) =>
               \/ Unwrap(loaded).ok
               \/ (disk = None /\ Unwrap(loaded).err = "IoError")

\* --------------------------------------------------------- C12: row keys
Asked == IsSome(rowKey)
AskedRow == Get(table.rows, Unwrap(rowIdx))

\* The cells of row at the indices of pk that the row has, in the order of pk.
KeyCells(pk, row) ==
    LET InRow(idx) == idx < Len(row)
        kept == SelectSeq(pk, InRow)
    IN  [n \in 1..Len(kept) |-> row[kept[n] + 1]]

\* C12 as stated: with a primary key set get_row_key returns the cells of
\* row row_idx at the key's column indices, in key order, skipping the
\* indices the row does not have; with no primary key set it returns no value.
C12_AsStated ==
    Asked =>
        IF IsSome(table.primary_key)
        THEN /\ IsSome(Unwrap(rowKey))
             /\ IsSome(AskedRow) =>
                    Unwrap(Unwrap(rowKey)) = KeyCells(Unwrap(table.primary_key), Unwrap(AskedRow))
        ELSE Unwrap(rowKey) = None

\* C12 amended: with a primary key set and row_idx below the row count
\* get_row_key returns the cells of that row at the key's column indices, in
\* key order, skipping the indices the row does not have; with no primary key
\* set, or row_idx not below the row count, it returns no value.
\* set_primary_key stores any index list as given.
C12_RowKey ==
    /\ [](Asked =>
             IF IsSome(table.primary_key) /\ IsSome(AskedRow)
             THEN Unwrap(rowKey) =
                      Some(KeyCells(Unwrap(table.primary_key), Unwrap(AskedRow)))
             ELSE Unwrap(rowKey) = None)
    /\ [][\A column_indices \in KeyLists :
              SetPrimaryKey(column_indices) => table'.primary_key = Some(column_indices)]_vars

\* A key of two columns, of which the row has only the second named, was
\* looked up in a row that exists.
C12_Witness ==
    /\ Asked
    /\ IsSome(table.primary_key)
    /\ Len(Unwrap(table.primary_key)) = 2
    /\ IsSome(AskedRow)
    /\ Unwrap(table.primary_key)[1] >= Len(Unwrap(AskedRow))
    /\ Unwrap(table.primary_key)[2] < Len(Unwrap(AskedRow))
    /\ Len(Unwrap(Unwrap(rowKey))) = 1

\* ------------------------------------- C14: the table digest and tampering
\* C14: tables that differ in their headers or in their rows have different
\* table digests, so a snapshot whose embedded headers or rows were modified
\* while its stored hashes were kept verifies false.
C14_TamperDetected ==
    (pc = "loaded" /\ altered = "table" /\ IsSome(verified)) =>
        /\ Held.table # Unwrap(snap).table
        /\ hash_table(Held.table.headers, Held.table.rows)
               # hash_table(Unwrap(snap).table.headers, Unwrap(snap).table.rows)
        /\ verified = Some(FALSE)

\* ------------------------------------- C15: modified rows and CellChanged
\* C15: every row index counted in rows_modified has a CellChanged record
\* in the change sequence, so a diff without changes has an all-zero summary.
C15_ModifiedRowsHaveCells ==
    Diffed =>
        /\ \A i \in 0..(Min(Len(FromRows), Len(ToRows)) - 1) :
               FromRows[i + 1] # ToRows[i + 1] =>
                   \E k \in OfKind("CellChanged") : Changes[k].row = i
        /\ Summary.rows_modified <=
               Cardinality({ Changes[k].row : k \in OfKind("CellChanged") })
        /\ Changes = <<>> => Summary = ZeroSummary

====
